---- MODULE Spec2Model ----
(***************************************************************************)
(* yokel (src/index.js): a CLI that links local packages with `npm link`   *)
(* and mirrors the link state into the consumer's package.json.            *)
(*                                                                         *)
(* A command (install <path>, install, unlink <path>, list) is one atomic  *)
(* action: the tool is single-threaded and awaits every step.  The state   *)
(* is the consumer's package.json on disk plus a record of what the last   *)
(* command did (its subprocess invocations, writes, counters, exit code).  *)
(* The dependency directories are a fixed filesystem; the outcomes of the  *)
(* npm subprocesses and of the final writeFile are inputs of each command. *)
(***************************************************************************)
EXTENDS Naturals, Sequences, FiniteSets, TLC

VARIABLES disk, last, base, ncmds

vars == <<disk, last, base, ncmds>>

(* ------------------------------ bounds -------------------------------- *)

\* commands run one after the other in one behaviour
MaxCmds == 3

\* entries of localDependencies in a manifest the tool starts from
MaxInitLocal == 2

(* --------------------------- JavaScript values ------------------------ *)

\* the value `undefined` (distinct from every string, also from "undefined")
Undefined == "<undefined>"

\* String(x), as applied by template literals, property keys and argv
ToStr(x) == IF x = Undefined THEN "undefined" ELSE x

\* ToBoolean(x) for a string-or-undefined value
Truthy(x) == x # Undefined /\ x # ""

\* `^${version}`
Caret(version) == "^" \o ToStr(version)

\* A JavaScript object with string keys is a sequence of [k, v] entries in
\* insertion order, keys unique.
Has(o, k) == \E i \in 1..Len(o) : o[i].k = k

Get(o, k) == IF Has(o, k) THEN o[CHOOSE i \in 1..Len(o) : o[i].k = k].v ELSE Undefined

Put(o, k, v) ==
    IF Has(o, k)
    THEN [i \in 1..Len(o) |-> IF o[i].k = k THEN [k |-> k, v |-> v] ELSE o[i]]
    ELSE Append(o, [k |-> k, v |-> v])

Del(o, k) == SelectSeq(o, LAMBDA e : e.k # k)

KeysOf(o) == [i \in 1..Len(o) |-> o[i].k]

KeySet(o) == {o[i].k : i \in 1..Len(o)}

\* an optional object-valued property of a manifest
Absent == [present |-> FALSE, entries |-> <<>>]

Obj(entries) == [present |-> TRUE, entries |-> entries]

(* ------------------------------- paths -------------------------------- *)

\* A path is the sequence of its segments; a leading "/" segment marks an
\* absolute path.  A directory is the segment sequence below the root.
Cwd == <<"home", "app">>

RECURSIVE Normalize(_, _)
Normalize(acc, segs) ==
    IF segs = <<>> THEN acc
    ELSE LET s == Head(segs)
             acc2 == IF s = "." \/ s = "" THEN acc
                     ELSE IF s = ".."
                          THEN (IF acc = <<>> THEN acc ELSE SubSeq(acc, 1, Len(acc) - 1))
                          ELSE Append(acc, s)
         IN Normalize(acc2, Tail(segs))

\* path.resolve(currentPath, localPath)
resolve(currentPath, localPath) ==
    IF localPath # <<>> /\ Head(localPath) = "/"
    THEN Normalize(<<>>, Tail(localPath))
    ELSE Normalize(currentPath, localPath)

\* the absolute path string of a directory
AbsPath(dir) == <<"/">> \o dir

(* --------------------------- the filesystem --------------------------- *)

Manifest(n, v, deps, locals) ==
    [name |-> n, version |-> v, dependencies |-> deps, localDependencies |-> locals]

NoJson == Manifest(Undefined, Undefined, Absent, Absent)

OkFile(json) == [kind |-> "ok", json |-> json]

MissingFile == [kind |-> "missing", json |-> NoJson]

InvalidFile == [kind |-> "invalid", json |-> NoJson]

\* the dependency directories that exist, and the package.json of each
DepFS ==
    (<<"home", "lib">>    :> OkFile(Manifest("lib", "2.3.0", Absent, Absent)))
 @@ (<<"home", "lib2">>   :> OkFile(Manifest("lib", "1.0.0", Absent, Absent)))
 @@ (<<"home", "util">>   :> OkFile(Manifest("util", Undefined, Absent, Absent)))
 @@ (<<"home", "noname">> :> OkFile(Manifest(Undefined, "0.1.0", Absent, Absent)))
 @@ (<<"home", "nopkg">>  :> MissingFile)

\* access(absolutePath, F_OK) succeeds
Exists(dir) == dir = Cwd \/ dir \in DOMAIN DepFS

\* the file <dir>/package.json, given the consumer's
FileAt(dir, consumer) ==
    IF dir = Cwd THEN consumer
    ELSE IF dir \in DOMAIN DepFS THEN DepFS[dir]
    ELSE MissingFile

\* the path strings a caller supplies
Paths ==
    { <<"..", "lib">>, <<"..", "lib", ".">>, <<"..", "lib2">>, <<"..", "util">>,
      <<"..", "noname">>, <<"..", "nopkg">>, <<"..", "gone">> }

(* --------------------------- readPackageJson -------------------------- *)

readPackageJson(file) ==
    IF file.kind = "missing" THEN [ok |-> FALSE, err |-> "NotFound", json |-> NoJson]
    ELSE IF file.kind = "invalid" THEN [ok |-> FALSE, err |-> "Parse", json |-> NoJson]
    ELSE [ok |-> TRUE, err |-> "none", json |-> file.json]

\* writePackageJson: JSON.stringify then writeFile; writeOk is whether
\* writeFile succeeds
writePackageJson(file, packageData, writeOk) ==
    IF writeOk THEN OkFile(packageData) ELSE file

(* ----------------------------- execCommand ---------------------------- *)

\* execCommand with the callback's error ignored: the promise resolves
\* whatever the child's exit status
execCommandAlwaysResolves(command, args, cwd, exitsZero) ==
    [ok   |-> TRUE,
     call |-> [command |-> command, args |-> args, cwd |-> cwd, ok |-> exitsZero]]

\* One subprocess invocation: the promise resolves iff the child exits zero
\* (exitsZero, an input), and rejects otherwise.  `call` is the invocation
\* as the operating system sees it.
execCommand(command, args, cwd, exitsZero) ==
    [ok   |-> exitsZero,
     call |-> [command |-> command, args |-> args, cwd |-> cwd, ok |-> exitsZero]]

(* ------------------------- linkLocalDependency ------------------------ *)

NoDep == [name |-> Undefined, version |-> Undefined, path |-> <<>>]

\* the name check left out
NameNeverMissing(depName) == FALSE

\* `if (!depName)`
NameMissing(depName) == ~Truthy(depName)

\* the identity carrying the resolved absolute path instead of localPath
LinkedIdentityResolved(depName, depVersion, localPath, absolutePath) ==
    [name |-> depName, version |-> depVersion, path |-> AbsPath(absolutePath)]

\* the value returned on success
LinkedIdentity(depName, depVersion, localPath, absolutePath) ==
    [name |-> depName, version |-> depVersion, path |-> localPath]

LinkFail(err, calls) == [ok |-> FALSE, err |-> err, calls |-> calls, depInfo |-> NoDep]

\* env.regFail: the directories in which `npm link` fails;
\* env.conFail: the names for which `npm link <name>` fails
linkLocalDependency(localPath, currentPath, consumer, env) ==
    LET absolutePath == resolve(currentPath, localPath)
        rd           == readPackageJson(FileAt(absolutePath, consumer))
        depName      == rd.json.name
        depVersion   == rd.json.version
        reg == execCommand("npm", <<"link">>, absolutePath,
                           absolutePath \notin env.regFail)
        con == execCommand("npm", <<"link", depName>>, currentPath,
                           depName \notin env.conFail)
    IN  IF ~Exists(absolutePath) THEN LinkFail("PathNotFound", <<>>)
        ELSE IF ~rd.ok THEN LinkFail(rd.err, <<>>)
        ELSE IF NameMissing(depName) THEN LinkFail("MissingName", <<>>)
        ELSE IF ~reg.ok THEN LinkFail("Linker", <<reg.call>>)
        ELSE IF ~con.ok THEN LinkFail("Linker", <<reg.call, con.call>>)
        ELSE [ok |-> TRUE, err |-> "none", calls |-> <<reg.call, con.call>>,
              depInfo |-> LinkedIdentity(depName, depVersion, localPath, absolutePath)]

(* --------------------------- updatePackageJson ------------------------ *)

\* `if (!packageJson.<field>) packageJson.<field> = {}`
InitObj(o) == IF ~o.present THEN Obj(<<>>) ELSE o

updatePackageJson(consumer, depInfo, writeOk) ==
    LET rd == readPackageJson(consumer)
        j0 == rd.json
        j1 == [j0 EXCEPT !.dependencies = InitObj(@),
                         !.localDependencies = InitObj(@)]
        j2 == [j1 EXCEPT !.dependencies.entries =
                             Put(@, ToStr(depInfo.name), Caret(depInfo.version))]
        j3 == [j2 EXCEPT !.localDependencies.entries =
                             Put(@, depInfo.path, Caret(depInfo.version))]
    IN  IF ~rd.ok
        THEN [ok |-> FALSE, err |-> rd.err, disk |-> consumer, writes |-> 0]
        ELSE [ok |-> writeOk, err |-> IF writeOk THEN "none" ELSE "Write",
              disk |-> writePackageJson(consumer, j3, writeOk), writes |-> 1]

(* ------------------------------ outcomes ------------------------------ *)

\* What one command did: the package.json it leaves on disk, its exit
\* status, the error it printed, its subprocess invocations in order, the
\* number of writePackageJson calls, and (bulk install) its counters and
\* the entries it processed.
Outcome(d, exit, err, calls, writes) ==
    [disk |-> d, exit |-> exit, err |-> err, calls |-> calls, writes |-> writes,
     linked |-> FALSE, successCount |-> 0, failureCount |-> 0,
     attempted |-> <<>>, listing |-> <<>>]

(* ------------------------------ installSingle ------------------------- *)

installSingle(localPath, consumer, env) ==
    LET l == linkLocalDependency(localPath, Cwd, consumer, env)
        u == updatePackageJson(consumer, l.depInfo, env.writeOk)
    IN  IF ~l.ok THEN Outcome(consumer, 1, l.err, l.calls, 0)
        ELSE [Outcome(u.disk, IF u.ok THEN 0 ELSE 1, u.err, l.calls, u.writes)
                 EXCEPT !.linked = TRUE]

(* -------------------------------- installAll -------------------------- *)

\* the loop body refreshing the localDependencies entry as well
BulkApplyBothMaps(packageJson, depInfo) ==
    [packageJson EXCEPT
        !.dependencies = Obj(Put(InitObj(@).entries, ToStr(depInfo.name),
                                 Caret(depInfo.version))),
        !.localDependencies = Obj(Put(InitObj(@).entries, depInfo.path,
                                      Caret(depInfo.version)))]

\* the success branch of the loop body: only `dependencies` is touched
BulkApply(packageJson, depInfo) ==
    [packageJson EXCEPT
        !.dependencies = Obj(Put(InitObj(@).entries, ToStr(depInfo.name),
                                 Caret(depInfo.version)))]

\* one iteration of `for (const [localPath, version] of dependencies)`
LoopBody(acc, localPath, consumer, env) ==
    LET l == linkLocalDependency(localPath, Cwd, consumer, env)
    IN  IF l.ok
        THEN [acc EXCEPT !.packageJson = BulkApply(@, l.depInfo),
                         !.successCount = @ + 1,
                         !.calls = @ \o l.calls,
                         !.attempted = Append(@, localPath)]
        ELSE [acc EXCEPT !.failureCount = @ + 1,
                         !.calls = @ \o l.calls,
                         !.attempted = Append(@, localPath)]

RECURSIVE installLoop(_, _, _, _, _)
installLoop(dependencies, i, acc, consumer, env) ==
    IF i > Len(dependencies) THEN acc
    ELSE installLoop(dependencies, i + 1,
                     LoopBody(acc, dependencies[i].k, consumer, env), consumer, env)

\* the write guarded by "any entry was processed"
ShouldWriteIfProcessed(successCount, failureCount) == successCount + failureCount > 0

\* `if (successCount > 0)`
ShouldWrite(successCount, failureCount) == successCount > 0

\* bulk install failing the process on any failed entry, as single install does
BulkExitStrict(writeFailed, failureCount) ==
    IF writeFailed \/ failureCount > 0 THEN 1 ELSE 0

\* the status the process ends with once the loop has run
BulkExit(writeFailed, failureCount) == IF writeFailed THEN 1 ELSE 0

installAll(consumer, env) ==
    LET rd     == readPackageJson(consumer)
        locals == rd.json.localDependencies
        acc    == installLoop(locals.entries, 1,
                      [packageJson |-> rd.json, successCount |-> 0,
                       failureCount |-> 0, calls |-> <<>>, attempted |-> <<>>],
                      consumer, env)
        w      == ShouldWrite(acc.successCount, acc.failureCount)
        wfail  == w /\ ~env.writeOk
    IN  IF ~rd.ok THEN Outcome(consumer, 1, rd.err, <<>>, 0)
        ELSE IF ~locals.present \/ Len(locals.entries) = 0
        THEN Outcome(consumer, 0, "none", <<>>, 0)
        ELSE [Outcome(IF w THEN writePackageJson(consumer, acc.packageJson, env.writeOk)
                           ELSE consumer,
                      BulkExit(wfail, acc.failureCount),
                      IF wfail THEN "Write" ELSE "none",
                      acc.calls, IF w THEN 1 ELSE 0)
                 EXCEPT !.successCount = acc.successCount,
                        !.failureCount = acc.failureCount,
                        !.attempted = acc.attempted]

(* ----------------------------- unlinkDependency ----------------------- *)

\* the delete skipped
DeleteNever(o, key) == o

\* `if (obj && obj[key]) delete obj[key]`
DeleteIfSet(o, key) ==
    IF o.present /\ Truthy(Get(o.entries, key))
    THEN [o EXCEPT !.entries = Del(@, key)]
    ELSE o

\* unlink with the release subprocess not awaited: its failure is not seen
unlinkDependencyNoAwait(localPath, consumer, env) ==
    LET absolutePath == resolve(Cwd, localPath)
        rd      == readPackageJson(FileAt(absolutePath, consumer))
        depName == rd.json.name
        rel     == execCommand("npm", <<"unlink", depName>>, Cwd,
                               depName \notin env.relFail)
        rc      == readPackageJson(consumer)
        j1      == [rc.json EXCEPT
                       !.dependencies = [@ EXCEPT !.entries = Del(@, ToStr(depName))],
                       !.localDependencies = [@ EXCEPT !.entries = Del(@, localPath)]]
    IN  IF ~rd.ok THEN Outcome(consumer, 1, rd.err, <<>>, 0)
        ELSE IF ~rc.ok THEN Outcome(consumer, 1, rc.err, <<rel.call>>, 0)
        ELSE Outcome(writePackageJson(consumer, j1, TRUE), 0, "none", <<rel.call>>, 1)

\* env.relFail: the names for which `npm unlink <name>` fails
unlinkDependency(localPath, consumer, env) ==
    LET absolutePath == resolve(Cwd, localPath)
        rd      == readPackageJson(FileAt(absolutePath, consumer))
        depName == rd.json.name
        rel     == execCommand("npm", <<"unlink", depName>>, Cwd,
                               depName \notin env.relFail)
        rc      == readPackageJson(consumer)
        j1      == [rc.json EXCEPT
                       !.dependencies = DeleteIfSet(@, ToStr(depName)),
                       !.localDependencies = DeleteIfSet(@, localPath)]
    IN  IF ~rd.ok THEN Outcome(consumer, 1, rd.err, <<>>, 0)
        ELSE IF ~rel.ok THEN Outcome(consumer, 1, "Linker", <<rel.call>>, 0)
        ELSE IF ~rc.ok THEN Outcome(consumer, 1, rc.err, <<rel.call>>, 0)
        ELSE Outcome(writePackageJson(consumer, j1, env.writeOk),
                     IF env.writeOk THEN 0 ELSE 1,
                     IF env.writeOk THEN "none" ELSE "Write",
                     <<rel.call>>, 1)

(* ---------------------------------- list ------------------------------ *)

NotFoundMarker == "(package.json not found)"

listLine(entry, consumer) ==
    LET rd == readPackageJson(FileAt(resolve(Cwd, entry.k), consumer))
    IN  [path |-> entry.k, range |-> entry.v,
         name |-> IF rd.ok THEN ToStr(rd.json.name) ELSE NotFoundMarker]

listCommand(consumer) ==
    LET rd     == readPackageJson(consumer)
        locals == rd.json.localDependencies
    IN  IF ~rd.ok THEN Outcome(consumer, 1, rd.err, <<>>, 0)
        ELSE [Outcome(consumer, 0, "none", <<>>, 0)
                 EXCEPT !.listing = [i \in 1..Len(locals.entries) |->
                                        listLine(locals.entries[i], consumer)]]

(* ------------------------- inputs of a command ------------------------ *)

\* the package name declared at a path (undefined when none can be read)
DeclaredName(p) == readPackageJson(FileAt(resolve(Cwd, p), MissingFile)).json.name

\* the directories and names the npm subprocesses of a command over the
\* paths ps can be run for
RegDirs(ps) == {resolve(Cwd, p) : p \in {q \in ps : Truthy(DeclaredName(q))}}

ConNames(ps) == {DeclaredName(p) : p \in {q \in ps : Truthy(DeclaredName(q))}}

\* the names `npm unlink` can be run for in an unlink of p: the declared
\* name, whatever it is, once the dependency's package.json is read
RelNames(p) ==
    IF readPackageJson(FileAt(resolve(Cwd, p), MissingFile)).ok
    THEN {DeclaredName(p)} ELSE {}

Env(regFail, conFail, relFail, writeOk) ==
    [regFail |-> regFail, conFail |-> conFail, relFail |-> relFail, writeOk |-> writeOk]

LocalKeys(file) == KeySet(file.json.localDependencies.entries)

(* ------------------------------- the state ---------------------------- *)

\* disk  : the consumer's package.json
\* last  : the last command: its name and argument, its inputs, what the
\*         disk held before it (pre) and its outcome (o)
\* base  : the manifest before a successful `install <path>` (stage 1), kept
\*         while the next command is a successful `unlink <path>` of the same
\*         path string (stage 2)
\* ncmds : commands run so far
NoBase == [stage |-> 0, path |-> <<>>, json |-> NoJson]

NoEnv == Env({}, {}, {}, TRUE)

Ran(op, arg, env, pre, o) == [op |-> op, arg |-> arg, env |-> env, pre |-> pre, o |-> o]

\* the paths a manifest the tool starts from may list
InitPaths == { <<"..", "lib2">>, <<"..", "noname">>, <<"..", "gone">> }

\* the ordered selections of at most n distinct paths
RECURSIVE Picks(_)
Picks(n) ==
    IF n = 0 THEN {<<>>}
    ELSE LET shorter == Picks(n - 1)
             longest == {t \in shorter : Len(t) = n - 1}
         IN  shorter \cup
             {Append(x[1], x[2]) :
                 x \in {y \in longest \X InitPaths :
                           \A i \in 1..Len(y[1]) : y[1][i] # y[2]}}

\* a range stored by an earlier run, before the dependencies' versions moved
StaleRange == "^0.9.0"

InitDeps ==
    { Absent,
      Obj(<<[k |-> "lib", v |-> StaleRange], [k |-> "express", v |-> "^4.0.0"]>>) }

InitLocals ==
    {Absent} \cup
    {Obj([i \in 1..Len(s) |-> [k |-> s[i], v |-> StaleRange]]) : s \in Picks(MaxInitLocal)}

InitDisks(locals) ==
    {MissingFile, InvalidFile} \cup
    {OkFile(Manifest("app", "1.0.0", d, l)) : d \in InitDeps, l \in locals}

InitWith(locals) ==
    /\ disk \in InitDisks(locals)
    /\ last = Ran("none", <<>>, NoEnv, disk, Outcome(disk, 0, "none", <<>>, 0))
    /\ base = NoBase
    /\ ncmds = 0

Init == InitWith(InitLocals)

\* the tool starts from a manifest with no localDependencies
InitFresh == InitWith({Absent, Obj(<<>>)})

(* ------------------------------- commands ----------------------------- *)

Step(op, arg, env, o) ==
    /\ disk' = o.disk
    /\ last' = Ran(op, arg, env, disk, o)
    /\ ncmds' = ncmds + 1
    /\ base' =
         IF op = "install" /\ o.exit = 0
         THEN [stage |-> 1, path |-> arg, json |-> disk.json]
         ELSE IF op = "unlink" /\ o.exit = 0 /\ base.stage = 1 /\ base.path = arg
         THEN [base EXCEPT !.stage = 2]
         ELSE NoBase

\* whether writeFile can fail in a command: only if the command reaches it
WriteOutcomes(o) == IF o.writes = 1 THEN BOOLEAN ELSE {TRUE}

\* yokel install <path>
InstallSingle ==
    /\ ncmds < MaxCmds
    /\ \E localPath \in Paths :
       \E regFail \in SUBSET RegDirs({localPath}) :
       \E conFail \in SUBSET (IF regFail = {} THEN ConNames({localPath}) ELSE {}) :
       \E writeOk \in WriteOutcomes(installSingle(localPath, disk,
                                                  Env(regFail, conFail, {}, TRUE))) :
          LET env == Env(regFail, conFail, {}, writeOk)
          IN  Step("install", localPath, env, installSingle(localPath, disk, env))

\* yokel install
InstallAll ==
    /\ ncmds < MaxCmds
    /\ \E regFail \in SUBSET RegDirs(LocalKeys(disk)) :
       \E conFail \in SUBSET ConNames({p \in LocalKeys(disk) :
                                          resolve(Cwd, p) \notin regFail}) :
       \E writeOk \in WriteOutcomes(installAll(disk, Env(regFail, conFail, {}, TRUE))) :
          LET env == Env(regFail, conFail, {}, writeOk)
          IN  Step("installAll", <<>>, env, installAll(disk, env))

\* yokel unlink <path>
Unlink ==
    /\ ncmds < MaxCmds
    /\ \E localPath \in Paths :
       \E relFail \in SUBSET RelNames(localPath) :
       \E writeOk \in WriteOutcomes(unlinkDependency(localPath, disk,
                                                     Env({}, {}, relFail, TRUE))) :
          LET env == Env({}, {}, relFail, writeOk)
          IN  Step("unlink", localPath, env, unlinkDependency(localPath, disk, env))

\* yokel list
List ==
    /\ ncmds < MaxCmds
    /\ Step("list", <<>>, NoEnv, listCommand(disk))

Next == InstallSingle \/ InstallAll \/ Unlink \/ List

Spec == Init /\ [][Next]_vars

SpecFresh == InitFresh /\ [][Next]_vars

(* ============================ properties ============================== *)

\* What the filesystem and the inputs of a command say, independently of
\* the handlers above.
DirOf(p) == resolve(Cwd, p)

DepFile(p) == FileAt(DirOf(p), MissingFile)

DeclaredVersion(p) == DepFile(p).json.version

\* the dependency's package.json can be read but declares no name
Nameless(p) == Exists(DirOf(p)) /\ DepFile(p).kind = "ok" /\ ~Truthy(DeclaredName(p))

\* steps 1-5 of a link of p all succeed under the inputs env
LinkableBy(p, env) ==
    /\ Exists(DirOf(p))
    /\ DepFile(p).kind = "ok"
    /\ Truthy(DeclaredName(p))
    /\ DirOf(p) \notin env.regFail
    /\ DeclaredName(p) \notin env.conFail

\* obj1 and obj2 agree on every key outside skip
SameExcept(obj1, obj2, skip) ==
    /\ KeySet(obj1) \ skip = KeySet(obj2) \ skip
    /\ \A k \in KeySet(obj1) \ skip : Get(obj1, k) = Get(obj2, k)

IsRegister(c) == c.command = "npm" /\ c.args = <<"link">>

IsConsume(c) == c.command = "npm" /\ Len(c.args) = 2 /\ c.args[1] = "link"

IsRelease(c) == c.command = "npm" /\ Len(c.args) = 2 /\ c.args[1] = "unlink"

PreDeps == last.pre.json.dependencies.entries

PreLocals == last.pre.json.localDependencies.entries

NowDeps == disk.json.dependencies.entries

NowLocals == disk.json.localDependencies.entries

\* C1: a single install of path p whose link succeeds (name n, version v)
\* and whose manifest is written leaves dependencies[n] = "^"+v and
\* localDependencies[p] = "^"+v, with p the string as supplied (not the
\* resolved absolute path), and every other key as it was.
C1_InstallSetsBothEntries ==
    ( /\ last.op = "install"
      /\ LinkableBy(last.arg, last.env)
      /\ last.pre.kind = "ok"
      /\ last.env.writeOk )
    => LET p == last.arg
           n == DeclaredName(p)
           v == DeclaredVersion(p)
       IN  /\ last.o.exit = 0 /\ last.o.writes = 1 /\ disk.kind = "ok"
           /\ disk.json.dependencies.present
           /\ disk.json.localDependencies.present
           /\ Get(NowDeps, n) = Caret(v)
           /\ Get(NowLocals, p) = Caret(v)
           /\ SameExcept(NowDeps, PreDeps, {n})
           /\ SameExcept(NowLocals, PreLocals, {p})
           /\ ~Has(NowLocals, AbsPath(DirOf(p)))
           /\ disk.json.name = last.pre.json.name
           /\ disk.json.version = last.pre.json.version

\* C1 witness: a successful install under a spelling that differs from the
\* resolved directory, into a manifest that had neither map
C1_Witness ==
    /\ last.op = "install" /\ last.o.exit = 0
    /\ last.arg = <<"..", "lib", ".">>
    /\ ~last.pre.json.dependencies.present
    /\ ~last.pre.json.localDependencies.present
    /\ Get(NowLocals, <<"..", "lib", ".">>) = "^2.3.0"

\* C2: a bulk install over N entries of which K fail to link attempts all
\* N in order, ends with successCount = N-K and failureCount = K, and calls
\* writePackageJson once if successCount > 0 and never if successCount = 0.
C2_BulkCountsAndSingleWrite ==
    (last.op = "installAll" /\ last.pre.kind = "ok")
    => LET N == Len(PreLocals)
           K == Cardinality({i \in 1..N : ~LinkableBy(PreLocals[i].k, last.env)})
       IN  /\ last.o.attempted = KeysOf(PreLocals)
           /\ last.o.successCount + K = N
           /\ last.o.failureCount = K
           /\ (last.o.successCount > 0 => last.o.writes = 1)
           /\ (last.o.successCount = 0 => last.o.writes = 0 /\ disk = last.pre)

\* C2 witness: a batch in which a failing entry precedes one that links
C2_Witness ==
    /\ last.op = "installAll"
    /\ last.o.failureCount >= 1 /\ last.o.successCount >= 1
    /\ \E i, j \in 1..Len(PreLocals) :
          /\ i < j
          /\ ~LinkableBy(PreLocals[i].k, last.env)
          /\ LinkableBy(PreLocals[j].k, last.env)

\* C3: a single install whose link fails never writes the manifest (the
\* file is as before), and a dependency manifest without a name fails with
\* the missing-name error before any subprocess is invoked.
C3_FailedInstallLeavesManifest ==
    (last.op = "install" /\ ~LinkableBy(last.arg, last.env))
    => /\ last.o.writes = 0
       /\ disk = last.pre
       /\ last.o.exit = 1
       /\ Nameless(last.arg) => (last.o.err = "MissingName" /\ last.o.calls = <<>>)

\* C3 witness: an install of a nameless dependency into a readable manifest
C3_Witness ==
    /\ last.op = "install" /\ Nameless(last.arg)
    /\ last.pre.kind = "ok" /\ last.o.err = "MissingName"

\* C4: in unlink, when the release subprocess fails the manifest is not
\* mutated: no write, and both entries stay.
C4_ReleaseFailureLeavesManifest ==
    ( /\ last.op = "unlink"
      /\ \E i \in 1..Len(last.o.calls) :
            IsRelease(last.o.calls[i]) /\ ~last.o.calls[i].ok )
    => /\ last.o.writes = 0
       /\ disk = last.pre
       /\ last.o.exit = 1

\* C4 witness: a failed release of a dependency the manifest lists
C4_Witness ==
    /\ last.op = "unlink" /\ last.o.err = "Linker"
    /\ last.pre.kind = "ok"
    /\ Has(PreLocals, last.arg)
    /\ Has(PreDeps, DeclaredName(last.arg))

\* C5: unlink of a path whose package.json declares no name fails with the
\* missing-name error, invokes no release subprocess and writes nothing.
C5_UnlinkRequiresName ==
    (last.op = "unlink" /\ Nameless(last.arg))
    => /\ last.o.err = "MissingName"
       /\ last.o.calls = <<>>
       /\ last.o.writes = 0

\* C6: round trip: a successful `install p` followed by a successful
\* `unlink p` leaves a manifest whose dependencies lack n, whose
\* localDependencies lack p, and which otherwise is the manifest from
\* before the install (both maps present, possibly empty).
C6_InstallUnlinkRoundTrip ==
    (base.stage = 2)
    => LET p == base.path
           n == DeclaredName(p)
           b == base.json
       IN  /\ disk.kind = "ok"
           /\ disk.json =
                [b EXCEPT !.dependencies = Obj(Del(b.dependencies.entries, n)),
                          !.localDependencies = Obj(Del(b.localDependencies.entries, p))]

\* C6 witness: a round trip over a manifest that held other dependencies
\* and other local entries
C6_Witness ==
    /\ base.stage = 2
    /\ Has(base.json.dependencies.entries, "express")
    /\ Len(base.json.localDependencies.entries) >= 1
    /\ ~Has(base.json.localDependencies.entries, base.path)

\* C7: starting with no localDependencies, whenever an install command has
\* just succeeded every key p of localDependencies has a key in
\* dependencies equal to the name the dependency at p declares.
C7_LocalKeysHaveDependency ==
    ( /\ disk.kind = "ok"
      /\ \/ last.op = "install" /\ last.o.exit = 0
         \/ last.op = "installAll" /\ last.o.exit = 0 /\ last.o.successCount > 0 )
    => \A p \in KeySet(NowLocals) : Has(NowDeps, ToStr(DeclaredName(p)))

\* C8: bulk install ends with status 0 whenever the manifest could be read
\* and (if needed) written, whatever the number of failed entries; single
\* install, unlink and list end with a non-zero status exactly on an error
\* they cannot recover from.
C8_ExitStatus ==
    /\ (last.op = "installAll")
       => (last.o.exit = 0 <=> (last.pre.kind = "ok" /\ last.env.writeOk))
    /\ (last.op = "install")
       => (last.o.exit = 1 <=>
              \/ ~LinkableBy(last.arg, last.env)
              \/ last.pre.kind # "ok"
              \/ ~last.env.writeOk)
    /\ (last.op = "unlink")
       => (last.o.exit = 1 <=>
              \/ DepFile(last.arg).kind # "ok"
              \/ DeclaredName(last.arg) \in last.env.relFail
              \/ last.pre.kind # "ok"
              \/ ~last.env.writeOk)
    /\ (last.op = "list")
       => (last.o.exit = 1 <=> last.pre.kind # "ok")

\* C8 witness: a bulk install in which every entry failed, ending with 0
C8_Witness ==
    /\ last.op = "installAll"
    /\ last.o.failureCount >= 2 /\ last.o.successCount = 0
    /\ last.o.exit = 0

\* C9: in install commands register runs only for an existing path with a
\* name; consume runs only right after a successful register of the
\* dependency it names; nothing follows a failed register or consume of a
\* dependency but the next dependency's register; release is never run.
C9_LinkerStepsOrdered ==
    (last.op \in {"install", "installAll"})
    => LET c == last.o.calls
       IN  \A i \in 1..Len(c) :
              /\ IsRegister(c[i]) \/ IsConsume(c[i])
              /\ IsRegister(c[i]) =>
                    /\ c[i].cwd \in DOMAIN DepFS
                    /\ DepFS[c[i].cwd].kind = "ok"
                    /\ Truthy(DepFS[c[i].cwd].json.name)
              /\ IsConsume(c[i]) =>
                    /\ c[i].cwd = Cwd
                    /\ i > 1
                    /\ IsRegister(c[i - 1])
                    /\ c[i - 1].ok
                    /\ DepFS[c[i - 1].cwd].json.name = c[i].args[2]
              /\ (IsRegister(c[i]) /\ c[i].ok) =>
                    (i < Len(c) /\ IsConsume(c[i + 1]))

\* C9 witness: a batch with a failed register followed by another
\* dependency's register, and a failed consume
C9_Witness ==
    /\ last.op = "installAll"
    /\ \E i \in 1..Len(last.o.calls) :
          /\ i < Len(last.o.calls)
          /\ IsRegister(last.o.calls[i]) /\ ~last.o.calls[i].ok
    /\ \E i \in 1..Len(last.o.calls) :
          IsConsume(last.o.calls[i]) /\ ~last.o.calls[i].ok

\* C10: bulk install never changes localDependencies; for the entries that
\* link only dependencies[name] is set, to "^" + the version of the last
\* such entry, and every other key of the manifest stays.
C10_BulkKeepsLocalDependencies ==
    (last.op = "installAll" /\ last.pre.kind = "ok")
    => LET N  == Len(PreLocals)
           S  == {i \in 1..N : LinkableBy(PreLocals[i].k, last.env)}
           nm == {DeclaredName(PreLocals[i].k) : i \in S}
           lastOf(n) == CHOOSE i \in S :
                           /\ DeclaredName(PreLocals[i].k) = n
                           /\ \A j \in S : DeclaredName(PreLocals[j].k) = n => j <= i
       IN  /\ disk.kind = "ok"
           /\ disk.json.localDependencies = last.pre.json.localDependencies
           /\ disk.json.name = last.pre.json.name
           /\ disk.json.version = last.pre.json.version
           /\ SameExcept(NowDeps, PreDeps, nm)
           /\ (last.env.writeOk) =>
                 \A n \in nm :
                    Get(NowDeps, n) = Caret(DeclaredVersion(PreLocals[lastOf(n)].k))

\* C10 witness: a written batch with a failed entry and a linked entry
\* whose stored range differs from the dependency's current version
C10_Witness ==
    /\ last.op = "installAll" /\ last.o.writes = 1 /\ last.env.writeOk
    /\ last.o.failureCount >= 1
    /\ \E i \in 1..Len(PreLocals) :
          /\ LinkableBy(PreLocals[i].k, last.env)
          /\ PreLocals[i].v # Caret(DeclaredVersion(PreLocals[i].k))
          /\ Get(NowDeps, DeclaredName(PreLocals[i].k)) # PreLocals[i].v

====
